---- MODULE Spec2Model ----
(***************************************************************************)
(* Open-addressing hash table with linear probing (src/src/main.rs),       *)
(* instantiated as HashTable<usize, usize>: keys hash to themselves.       *)
(* Slot indices are the source's 0-based indices; cells is a sequence, so  *)
(* slot idx is cells[idx + 1].                                             *)
(***************************************************************************)
EXTENDS Integers, Sequences, FiniteSets, TLC

\* ---- bounds of the model ------------------------------------------------
MaxKey == 8
MaxVal == 1
MaxInitCap == 2
MaxStrLen == 4
\* width of usize in the model (64 on the target)
WordBits == 16

\* usize keys given to the table: 0, 1 and 7..MaxKey, so that keys share a
\* home slot at every capacity the table goes through (1, 2, 3, 5, 7)
Keys == (0..1) \cup (7..MaxKey)
Values == 0..MaxVal
InitCaps == 1..MaxInitCap
\* bytes a String key is made of: the extremes, a digit and a letter
Bytes == {0, 48, 97, 255}

\* ---- Option<T> ----------------------------------------------------------
None == <<>>
Some(x) == <<x>>
unwrap(o) == o[1]

\* ---- program state ------------------------------------------------------
VARIABLES
    cells,         \* HashTable::cells, a sequence of HashCell records
    taken_count,   \* HashTable::taken_count
    fault,         \* "none", "panic" (failed assert / remainder by zero), "hang"
    grows,         \* history: number of completed extend() calls
    cap0,          \* history: the argument given to with_capacity
    shadow,        \* history: key -> value last stored by the caller
    last,          \* history: the last call, its arguments and its result
    str,           \* the bytes of a String key that hash() has consumed so far
    digest         \* the local `hash` of String::hash after those bytes

vars == <<cells, taken_count, fault, grows, cap0, shadow, last, str, digest>>

\* the table as a value; grows and fault are threaded through the methods
self == [cells |-> cells, taken_count |-> taken_count, fault |-> fault, grows |-> grows]

\* ---- Hashable for usize -------------------------------------------------
hash(k) == k

\* ---- Hashable for String -------------------------------------------------
\* usize is modelled WordBits wide; arithmetic on it is modulo WordSize
RECURSIVE Pow2(_)
Pow2(n) == IF n = 0 THEN 1 ELSE 2 * Pow2(n - 1)
WordSize == Pow2(WordBits)

\* let mut hash: usize = 5381
HashSeed == 5381

\* x << n on usize: the bits shifted out are dropped; n < WordBits, no fault
shl(x, n) == (x * Pow2(n)) % WordSize

\* mutant: addition that does not wrap
plain_add(a, b) == a + b

\* usize::wrapping_add
wrapping_add(a, b) == (a + b) % WordSize

\* the body of the for loop: (hash << 5).wrapping_add(hash).wrapping_add(c.into())
hash_step(h, c) == wrapping_add(wrapping_add(shl(h, 5), h), c)

\* String::hash over the bytes s[i..], starting from accumulator h
RECURSIVE hash_bytes(_, _, _)
hash_bytes(s, i, h) ==
    IF i > Len(s) THEN h ELSE hash_bytes(s, i + 1, hash_step(h, s[i]))

hash_str(s) == hash_bytes(s, 1, HashSeed)

\* ---- HashCell ------------------------------------------------------------
DefaultCell == [key |-> 0, value |-> 0, taken |-> FALSE]

DefaultCells(n) == [i \in 1..n |-> DefaultCell]

with_capacity(capacity) ==
    [cells |-> DefaultCells(capacity), taken_count |-> 0, fault |-> "none", grows |-> 0]

\* const DEFAULT_VEC_CAPACITY: usize = 61
DEFAULT_VEC_CAPACITY == 61

\* HashTable::new()
new == with_capacity(DEFAULT_VEC_CAPACITY)

\* values rand::random::<usize>() gives in the benchmark: the keys above and
\* two that share their home slots in a table of DEFAULT_VEC_CAPACITY cells
BenchDraws == Keys \cup {DEFAULT_VEC_CAPACITY, DEFAULT_VEC_CAPACITY + 1}

\* ---- get_index -----------------------------------------------------------
RECURSIVE get_index_loop(_, _, _, _)
get_index_loop(cs, key, idx, n) ==
    IF n = 0 THEN None
    ELSE IF ~cs[idx + 1].taken THEN None
    ELSE IF cs[idx + 1].key = key THEN Some(idx)
    ELSE get_index_loop(cs, key, (idx + 1) % Len(cs), n - 1)

\* mutant: compares the key of a slot without looking at its taken flag
RECURSIVE get_index_loop_notaken(_, _, _, _)
get_index_loop_notaken(cs, key, idx, n) ==
    IF n = 0 THEN None
    ELSE IF cs[idx + 1].key = key THEN Some(idx)
    ELSE IF ~cs[idx + 1].taken THEN None
    ELSE get_index_loop_notaken(cs, key, (idx + 1) % Len(cs), n - 1)

get_index_notaken(t, key) ==
    get_index_loop_notaken(t.cells, key, hash(key) % Len(t.cells), Len(t.cells))

\* mutant: looks at the home slot only, no linear probing
get_index_noprobe(t, key) ==
    get_index_loop(t.cells, key, hash(key) % Len(t.cells), 1)

get_index(t, key) ==
    get_index_loop(t.cells, key, hash(key) % Len(t.cells), Len(t.cells))

\* the number of passes of the for loop of get_index that end neither in the
\* break nor in the return
RECURSIVE get_index_passes(_, _, _, _)
get_index_passes(cs, key, idx, n) ==
    IF n = 0 THEN 0
    ELSE IF ~cs[idx + 1].taken THEN 0
    ELSE IF cs[idx + 1].key = key THEN 0
    ELSE 1 + get_index_passes(cs, key, (idx + 1) % Len(cs), n - 1)

\* get_index leaves its for loop by exhausting 0..self.cells.len() and gives
\* the None of line 111
falls_through(t, key) ==
    get_index_passes(t.cells, key, hash(key) % Len(t.cells), Len(t.cells)) = Len(t.cells)

\* ---- get / get_mut --------------------------------------------------------
get(t, key) ==
    LET r == get_index(t, key)
    IN  IF r # None THEN Some(t.cells[unwrap(r) + 1].value) ELSE None

\* mutant: hands out a reference to the slot after the one found
get_mut_next(t, key) ==
    LET r == get_index(t, key)
    IN  IF r # None THEN Some((unwrap(r) + 1) % Len(t.cells)) ELSE None

\* the &mut V returned is modelled by the index of the slot it points into
get_mut(t, key) ==
    LET r == get_index(t, key)
    IN  IF r # None THEN Some(unwrap(r)) ELSE None

\* *r = v for a reference r obtained from get_mut
write_ref(t, r, v) == [t EXCEPT !.cells[r + 1].value = v]

\* ---- insert / extend ------------------------------------------------------
\* mutant: returns without storing the new value
overwrite_noop(t, r, new_value) == t

\* mutant: counts the overwritten slot again
overwrite_counts(t, r, new_value) ==
    [write_ref(t, r, new_value) EXCEPT !.taken_count = t.taken_count + 1]

\* mutant: rebuilds the cell from the default with the new value
overwrite_resetcell(t, r, new_value) ==
    [t EXCEPT !.cells[r + 1] = [DefaultCell EXCEPT !.value = new_value]]

\* insert, key present: *old_val = new_value; return
overwrite(t, r, new_value) == write_ref(t, r, new_value)

\* mutant: the probe starts at slot 0 instead of the home slot
RECURSIVE find_free_fromzero_loop(_, _, _)
find_free_fromzero_loop(cs, idx, n) ==
    IF n = 0 THEN None
    ELSE IF cs[idx + 1].taken THEN find_free_fromzero_loop(cs, (idx + 1) % Len(cs), n - 1)
    ELSE Some(idx)

find_free_fromzero(cs, idx, n) == find_free_fromzero_loop(cs, 0, n)

\* mutant: the probe advances by two slots
RECURSIVE find_free_step2(_, _, _)
find_free_step2(cs, idx, n) ==
    IF n = 0 THEN None
    ELSE IF cs[idx + 1].taken THEN find_free_step2(cs, (idx + 2) % Len(cs), n - 1)
    ELSE Some(idx)

\* the while loop of insert: Some(idx) of the free slot it stops at; after
\* Len(cs) steps every slot has been seen taken and the loop never ends: None
RECURSIVE find_free(_, _, _)
find_free(cs, idx, n) ==
    IF n = 0 THEN None
    ELSE IF cs[idx + 1].taken THEN find_free(cs, (idx + 1) % Len(cs), n - 1)
    ELSE Some(idx)

\* mutant: stores the cell but forgets taken_count += 1
place_nocount(t, idx, key, new_value) ==
    [t EXCEPT !.cells[idx + 1] = [key |-> key, value |-> new_value, taken |-> TRUE]]

\* the three stores into cells[idx] and taken_count += 1
place(t, idx, key, new_value) ==
    [t EXCEPT !.cells[idx + 1] = [key |-> key, value |-> new_value, taken |-> TRUE],
              !.taken_count = t.taken_count + 1]

\* mutant: doubles without the + 1
new_capacity_even(len) == len * 2

\* self.cells.len() * 2 + 1
new_capacity(len) == len * 2 + 1

\* mutant: grows one insert too early
needs_growth_early(t) == t.taken_count + 1 = Len(t.cells)

\* if self.taken_count == self.cells.len()
needs_growth(t) == t.taken_count = Len(t.cells)

RECURSIVE insert(_, _, _)

\* the for loop of extend, over old cells i..Len(old)
RECURSIVE extend_loop(_, _, _)
extend_loop(old, i, new_self) ==
    IF i > Len(old) \/ new_self.fault # "none" THEN new_self
    ELSE IF old[i].taken
         THEN extend_loop(old, i + 1, insert(new_self, old[i].key, old[i].value))
         ELSE extend_loop(old, i + 1, new_self)

\* mutant: the copy loop misses the first old cell
extend_skipfirst(t) ==
    IF t.taken_count # Len(t.cells) \/ Len(t.cells) = 0
    THEN [t EXCEPT !.fault = "panic"]
    ELSE LET new_self == [cells |-> DefaultCells(new_capacity(Len(t.cells))),
                          taken_count |-> 0,
                          fault |-> "none",
                          grows |-> t.grows]
             moved == extend_loop(t.cells, 2, new_self)
         IN  [moved EXCEPT !.grows = moved.grows + 1]

\* mutant: the new table starts with the old count
extend_keepcount(t) ==
    IF t.taken_count # Len(t.cells) \/ Len(t.cells) = 0
    THEN [t EXCEPT !.fault = "panic"]
    ELSE LET new_self == [cells |-> DefaultCells(new_capacity(Len(t.cells))),
                          taken_count |-> t.taken_count,
                          fault |-> "none",
                          grows |-> t.grows]
             moved == extend_loop(t.cells, 1, new_self)
         IN  [moved EXCEPT !.grows = moved.grows + 1]

\* mutant: old cells are copied to the same indices, digest not recomputed
extend_norehash(t) ==
    IF t.taken_count # Len(t.cells) \/ Len(t.cells) = 0
    THEN [t EXCEPT !.fault = "panic"]
    ELSE [t EXCEPT !.cells = t.cells \o DefaultCells(Len(t.cells) + 1),
                   !.grows = t.grows + 1]

\* the two asserts, the new table, the copy loop, *self = new_self
extend(t) ==
    IF t.taken_count # Len(t.cells) \/ Len(t.cells) = 0
    THEN [t EXCEPT !.fault = "panic"]
    ELSE LET new_self == [cells |-> DefaultCells(new_capacity(Len(t.cells))),
                          taken_count |-> 0,
                          fault |-> "none",
                          grows |-> t.grows]
             moved == extend_loop(t.cells, 1, new_self)
         IN  [moved EXCEPT !.grows = moved.grows + 1]

\* insert, key absent: grow if full, assert, probe for a free slot, store
insert_new(t, key, new_value) ==
    LET g == IF needs_growth(t) THEN extend(t) ELSE t
    IN  IF g.fault # "none" THEN g
        ELSE IF ~(Len(g.cells) > g.taken_count) THEN [g EXCEPT !.fault = "panic"]
        ELSE LET idx == find_free(g.cells, hash(key) % Len(g.cells), Len(g.cells))
             IN  IF idx = None THEN [g EXCEPT !.fault = "hang"]
                 ELSE place(g, unwrap(idx), key, new_value)

\* mutant: the fullness check comes before the presence check
insert_growfirst(t, key, new_value) ==
    IF Len(t.cells) = 0 THEN [t EXCEPT !.fault = "panic"]
    ELSE LET g == IF needs_growth(t) THEN extend(t) ELSE t
             r == get_mut(g, key)
         IN  IF g.fault # "none" THEN g
             ELSE IF r # None THEN overwrite(g, unwrap(r), new_value)
             ELSE insert_new(g, key, new_value)

\* mutant: no presence check and no growth, straight to the probe loop
insert_probeonly(t, key, new_value) ==
    LET idx == find_free(t.cells,
                         IF Len(t.cells) = 0 THEN 0 ELSE hash(key) % Len(t.cells),
                         Len(t.cells))
    IN  IF idx = None THEN [t EXCEPT !.fault = "hang"]
        ELSE place(t, unwrap(idx), key, new_value)

\* get_mut first: its get_index takes key.hash() % self.cells.len(), which
\* panics (remainder by zero) on an empty cells
insert(t, key, new_value) ==
    IF Len(t.cells) = 0 THEN [t EXCEPT !.fault = "panic"]
    ELSE LET r == get_mut(t, key)
         IN  IF r # None THEN overwrite(t, unwrap(r), new_value)
             ELSE insert_new(t, key, new_value)

\* ---- the state machine ------------------------------------------------------
\* last.old: what get(key) gave before the call; last.present: the caller had
\* stored key before the call; last.full: size = capacity before the call;
\* last.grew: the call ran extend(); last.again: the call is an insert that
\* directly follows an insert of the same key; last.cycled: the get_index of
\* the call ran its for loop to the end
Call(op, key, val, ret, grew, again) ==
    [op |-> op, key |-> key, val |-> val, ret |-> ret,
     old |-> IF Len(cells) = 0 THEN None ELSE get(self, key),
     present |-> key \in DOMAIN shadow,
     full |-> taken_count = Len(cells),
     grew |-> grew, again |-> again,
     cycled |-> IF Len(cells) = 0 THEN FALSE ELSE falls_through(self, key)]

NoCall ==
    [op |-> "none", key |-> 0, val |-> 0, ret |-> None, old |-> None,
     present |-> FALSE, full |-> FALSE, grew |-> FALSE, again |-> FALSE,
     cycled |-> FALSE]

\* HashTable::<usize, usize>::with_capacity(n); no String is being hashed
Constructed(n) ==
    /\ cells = with_capacity(n).cells
    /\ taken_count = with_capacity(n).taken_count
    /\ fault = "none"
    /\ grows = 0
    /\ cap0 = n
    /\ shadow = <<>>
    /\ last = NoCall
    /\ str = <<>>
    /\ digest = HashSeed

\* HashTable::<usize, usize>::with_capacity(n), n > 0
Init == \E n \in InitCaps : Constructed(n)

\* with_capacity(n) for every n the signature takes, 0 included
InitAny == \E n \in {0} \cup InitCaps : Constructed(n)

\* table.insert(key, v)
Insert(key, v) ==
    /\ fault = "none"
    /\ LET t == insert(self, key, v)
       IN  /\ cells' = t.cells
           /\ taken_count' = t.taken_count
           /\ fault' = t.fault
           /\ grows' = t.grows
    /\ shadow' = (key :> v) @@ shadow
    /\ last' = Call("insert", key, v, None, grows' # grows,
                     last.op = "insert" /\ last.key = key)
    /\ UNCHANGED <<cap0, str, digest>>

\* table.get(&key)
Get(key) ==
    /\ fault = "none"
    /\ IF Len(cells) = 0
       THEN /\ fault' = "panic"
            /\ last' = Call("get", key, 0, None, FALSE, FALSE)
       ELSE /\ fault' = fault
            /\ last' = Call("get", key, 0, get(self, key), FALSE, FALSE)
    /\ UNCHANGED <<cells, taken_count, grows, cap0, shadow, str, digest>>

\* if let Some(r) = table.get_mut(&key) { *r = v }
GetMut(key, v) ==
    /\ fault = "none"
    /\ IF Len(cells) = 0
       THEN /\ fault' = "panic"
            /\ last' = Call("get_mut", key, v, None, FALSE, FALSE)
            /\ UNCHANGED cells
       ELSE LET r == get_mut(self, key)
            IN  /\ fault' = fault
                /\ last' = Call("get_mut", key, v, r, FALSE, FALSE)
                /\ cells' = IF r # None THEN write_ref(self, unwrap(r), v).cells ELSE cells
    /\ shadow' = IF key \in DOMAIN shadow THEN [shadow EXCEPT ![key] = v] ELSE shadow
    /\ UNCHANGED <<taken_count, grows, cap0, str, digest>>

Next ==
    \/ \E key \in Keys, v \in Values : Insert(key, v)
    \/ \E key \in Keys : Get(key)
    \/ \E key \in Keys, v \in Values : GetMut(key, v)

Spec == Init /\ [][Next]_vars

\* one pass of the for loop of String::hash: the next byte c of the key
HashByte(c) ==
    /\ Len(str) < MaxStrLen
    /\ str' = Append(str, c)
    /\ digest' = hash_step(digest, c)
    /\ UNCHANGED <<cells, taken_count, fault, grows, cap0, shadow, last>>

NextHash == \E c \in Bytes : HashByte(c)

\* String::hash run on every byte string of up to MaxStrLen bytes
SpecHash == Init /\ [][NextHash]_vars

\* let mut table = HashTable::<usize, usize>::new()
InitBench ==
    /\ cells = new.cells
    /\ taken_count = new.taken_count
    /\ fault = "none"
    /\ grows = 0
    /\ cap0 = DEFAULT_VEC_CAPACITY
    /\ shadow = <<>>
    /\ last = NoCall
    /\ str = <<>>
    /\ digest = HashSeed

\* one pass of the for loop of benchmark_our_vergin_table with the draw n:
\* get_mut and *val += 1, else insert(n, n); then the assert_eq! on get(&n).
\* (*val += 1 cannot overflow here: a stored value is at most n + 1.)
BenchIter(n) ==
    /\ fault = "none"
    /\ LET r == get_mut(self, n)
           t == IF r # None
                THEN write_ref(self, unwrap(r),
                               wrapping_add(cells[unwrap(r) + 1].value, 1))
                ELSE insert(self, n, n)
           got == get(t, n)
       IN  /\ cells' = t.cells
           /\ taken_count' = t.taken_count
           /\ grows' = t.grows
           /\ fault' = IF t.fault # "none" THEN t.fault
                       ELSE IF got = Some(n) THEN "none" ELSE "panic"
           /\ shadow' = (n :> (IF got = None THEN n ELSE unwrap(got))) @@ shadow
           /\ last' = Call("bench", n, n, got, grows' # grows, FALSE)
    /\ UNCHANGED <<cap0, str, digest>>

NextBench == \E n \in BenchDraws : BenchIter(n)

\* the loop of benchmark_our_vergin_table over every sequence of draws
SpecBench == InitBench /\ [][NextBench]_vars

\* the same calls on a table built with any capacity, 0 included
SpecAny == InitAny /\ [][Next]_vars

\* ---- helpers of the properties ------------------------------------------------
TakenIdx(cs) == {i \in 1..Len(cs) : cs[i].taken}
PairsOf(cs) == {<<cs[i].key, cs[i].value>> : i \in TakenIdx(cs)}
Full == taken_count = Len(cells)

\* capacity after g growths of a table built with capacity c
RECURSIVE CapAfter(_, _)
CapAfter(c, g) == IF g = 0 THEN c ELSE 2 * CapAfter(c, g - 1) + 1

\* slot i (1-based) holds a key that was pushed away from its home slot
Displaced(i) == cells[i].taken /\ hash(cells[i].key) % Len(cells) # i - 1

\* ---- properties -----------------------------------------------------------------

\* C1 retrieval completeness: every key the caller has inserted is found by get
\* with the value last stored for it, whatever growth happened in between.
RetrievalComplete ==
    \A k \in DOMAIN shadow : get(self, k) = Some(shadow[k])

RetrievalCompleteWitness ==
    /\ grows >= 2
    /\ Cardinality(DOMAIN shadow) >= 4
    /\ last.op = "get"
    /\ last.ret = Some(shadow[last.key])
    /\ \E i \in 1..Len(cells) : Displaced(i)

\* C2 upsert: an insert(k, v2) that directly follows an insert(k, v1) leaves
\* get(k) = Some(v2) and does not change taken_count.
UpsertCorrect ==
    [][(last.op = "insert" /\ last'.op = "insert" /\ last'.key = last.key)
        => /\ get(self', last'.key) = Some(last'.val)
           /\ taken_count' = taken_count]_vars

UpsertCorrectWitness ==
    /\ last.op = "insert"
    /\ last.again
    /\ last.old # None
    /\ last.old # Some(last.val)
    /\ get(self, last.key) = Some(last.val)

\* C3 absence: get and get_mut give None for every key never inserted, also in
\* a full table and when the probe starts inside a cluster.
Absence ==
    \A k \in Keys \ DOMAIN shadow :
        /\ get(self, k) = None
        /\ get_mut(self, k) = None

AbsenceWitness ==
    /\ Full
    /\ taken_count >= 3
    /\ last.op = "get"
    /\ last.key \notin DOMAIN shadow
    /\ last.ret = None
    /\ \E i \in 1..Len(cells) : Displaced(i)

\* C4 growth preserves the mapping: in every insert that grows, the table
\* extend() hands back holds exactly the pairs held before, in as many slots,
\* with the same taken_count, and the insert then adds the new pair to it.
GrowthPreservesMapping ==
    [][grows' # grows
        => LET t == extend(self)
           IN  /\ t.fault = "none"
               /\ PairsOf(t.cells) = PairsOf(cells)
               /\ Cardinality(TakenIdx(t.cells)) = Cardinality(TakenIdx(cells))
               /\ t.taken_count = taken_count
               /\ Len(cells') = Len(t.cells)
               /\ PairsOf(cells') = PairsOf(t.cells) \cup {<<last'.key, last'.val>>}]_vars

GrowthPreservesMappingWitness ==
    /\ grows >= 2
    /\ last.op = "insert"
    /\ last.grew
    /\ taken_count >= 4

\* C5 growth trigger: an insert grows the table iff its key was not stored
\* before and size = capacity at the call.
GrowthTrigger ==
    [][last'.op = "insert"
        => ((grows' # grows) <=> (last'.key \notin DOMAIN shadow /\ taken_count = Len(cells)))]_vars

GrowthTriggerWitness ==
    /\ last.op = "insert"
    /\ last.present
    /\ last.full
    /\ ~last.grew
    /\ grows >= 1

\* C6 capacity evolution: a growth turns capacity c into 2c+1 > c, no other
\* call changes capacity, and capacity is the grows-th term of c0, 2c0+1, ...
CapacityEvolution ==
    [][/\ IF grows' # grows
          THEN /\ grows' = grows + 1
               /\ Len(cells') = 2 * Len(cells) + 1
               /\ Len(cells') > Len(cells)
          ELSE Len(cells') = Len(cells)
       /\ Len(cells) = CapAfter(cap0, grows)
       /\ Len(cells') = CapAfter(cap0', grows')]_vars

CapacityEvolutionWitness ==
    /\ grows = 2
    /\ Len(cells) = 4 * cap0 + 3
    /\ last.op = "get_mut"

\* C7 no duplicate keys: no two taken slots hold equal keys.
NoDuplicateKeys ==
    \A i, j \in TakenIdx(cells) : i # j => cells[i].key # cells[j].key

NoDuplicateKeysWitness ==
    /\ grows >= 1
    /\ taken_count >= 3
    /\ last.op = "insert"
    /\ last.present
    /\ Displaced(unwrap(get_index(self, last.key)) + 1)

\* C8 size bound: 0 <= taken_count <= cells.len().
SizeBound ==
    /\ 0 <= taken_count
    /\ taken_count <= Len(cells)

SizeBoundWitness ==
    /\ Full
    /\ taken_count >= 3
    /\ last.op = "insert"
    /\ last.present
    /\ last.full

\* C9 size accounting: taken_count is the number of slots whose taken flag is set.
SizeAccounting ==
    taken_count = Cardinality(TakenIdx(cells))

SizeAccountingWitness ==
    /\ last.op = "insert"
    /\ last.grew
    /\ taken_count >= 2
    /\ taken_count < Len(cells)

\* C10 mutation via get_mut: writing v through get_mut(k) for a stored key k
\* makes get(k) give v and changes nothing but the value of the slot holding k.
GetMutFrame ==
    [][(last'.op = "get_mut" /\ last'.key \in DOMAIN shadow)
        => /\ get(self', last'.key) = Some(last'.val)
           /\ taken_count' = taken_count
           /\ Len(cells') = Len(cells)
           /\ \A i \in 1..Len(cells) :
                /\ cells'[i].key = cells[i].key
                /\ cells'[i].taken = cells[i].taken
                /\ (cells'[i].value # cells[i].value
                      => cells[i].taken /\ cells[i].key = last'.key)]_vars

GetMutFrameWitness ==
    /\ last.op = "get_mut"
    /\ last.old # None
    /\ last.old # Some(last.val)
    /\ get(self, last.key) = Some(last.val)
    /\ taken_count >= 2

\* C11 capacity is never zero after construction, for any capacity the
\* constructor accepts: violated, with_capacity(0) builds an empty cells.
CapacityNeverZero ==
    Len(cells) > 0

\* C12 as claimed: on a table built with with_capacity(0) every insert loops
\* for ever in the probe loop.
ZeroCapacityInsertLoops ==
    (cap0 = 0 /\ last.op = "insert") => fault = "hang"

\* C12 amended: on a table built with with_capacity(0) every insert stops with
\* a panic (remainder by zero in the presence check) and stores nothing.
ZeroCapacityInsertPanics ==
    (cap0 = 0 /\ last.op = "insert")
        => /\ fault = "panic"
           /\ cells = <<>>
           /\ taken_count = 0

ZeroCapacityInsertPanicsWitness ==
    /\ cap0 = 0
    /\ last.op = "insert"
    /\ fault = "panic"

\* the digest as the data model words it: left fold of acc * 33 + b modulo
\* the word size, from 5381, over the first n bytes of s
RECURSIVE Djb2(_, _)
Djb2(s, n) == IF n = 0 THEN 5381 ELSE (Djb2(s, n - 1) * 33 + s[n]) % WordSize

\* accumulators around the points where acc * 33 passes a multiple of the word size
EdgeAccs ==
    {0, 1, WordSize - 1, WordSize - 2, WordSize \div 2, WordSize \div 33, WordSize \div 33 + 1}

\* C13 string digest: hash(s) is the left fold of (acc * 33 + b) mod 2^W from
\* 5381; the shift-and-add step equals it for every accumulator, stays inside
\* the word and raises no fault; the integer digest of n is n.
StringDigest ==
    /\ digest = Djb2(str, Len(str))
    /\ hash_str(str) = Djb2(str, Len(str))
    /\ digest \in 0..(WordSize - 1)
    /\ \A acc \in EdgeAccs \cup {digest}, b \in Bytes :
          hash_step(acc, b) = (acc * 33 + b) % WordSize
    /\ fault = "none"
    /\ \A n \in Keys : hash(n) = n

\* a string whose fold left the word at its last byte
StringDigestWitness ==
    /\ Len(str) = MaxStrLen
    /\ str[Len(str)] = 255
    /\ Djb2(str, Len(str) - 1) * 33 + 255 >= WordSize
    /\ digest = hash_str(str)

\* the table extend() has built when its for loop reaches old cell i of t
Reinserted(t, i) ==
    extend_loop(SubSeq(t.cells, 1, i - 1), 1,
                [cells |-> DefaultCells(new_capacity(Len(t.cells))),
                 taken_count |-> 0, fault |-> "none", grows |-> t.grows])

\* C14 as claimed: no get_index call runs all capacity passes of its loop
\* without finding the key or an unoccupied slot.
FallbackUnreachable ==
    ~last.cycled

\* C14 amended: a get_index call runs all capacity passes exactly when the
\* table is full and the key is not stored, and it then reports absence; the
\* presence checks of the re-insertions of a growth never do.
FallbackOnlyWhenFull ==
    /\ last.op # "none" => (last.cycled <=> (last.full /\ ~last.present))
    /\ (last.cycled /\ last.op # "insert") => last.ret = None
    /\ (last.cycled /\ last.op = "insert") => last.grew
    /\ Full => \A i \in 1..Len(cells) :
                  ~falls_through(Reinserted(self, i), cells[i].key)

FallbackOnlyWhenFullWitness ==
    /\ last.op = "get"
    /\ last.cycled
    /\ last.ret = None
    /\ taken_count >= 3
    /\ grows >= 1

\* the slots on the cyclic path from slot a to slot b (0-based), both included
Path(a, b, n) == {(a + d) % n : d \in 0..((b - a + n) % n)}

\* C15 probe-chain invariant: every slot on the cyclic path from the home slot
\* of a stored key to the slot holding it is occupied.
ProbeChain ==
    \A i \in TakenIdx(cells) :
        \A j \in Path(hash(cells[i].key) % Len(cells), i - 1, Len(cells)) :
            cells[j + 1].taken

\* a stored key whose path wraps round the end of the array, after a growth
ProbeChainWitness ==
    /\ grows >= 1
    /\ \E i \in TakenIdx(cells) : hash(cells[i].key) % Len(cells) > i - 1
    /\ last.op = "get"
    /\ last.ret # None

\* C16 overwrite frame: an insert of a stored key changes nothing but the
\* value of the one slot holding that key, also in a full table.
OverwriteFrame ==
    [][(last'.op = "insert" /\ last'.key \in DOMAIN shadow)
        => /\ Len(cells') = Len(cells)
           /\ taken_count' = taken_count
           /\ grows' = grows
           /\ fault' = fault
           /\ \A i \in 1..Len(cells) :
                /\ cells'[i].key = cells[i].key
                /\ cells'[i].taken = cells[i].taken
                /\ IF cells[i].taken /\ cells[i].key = last'.key
                   THEN cells'[i].value = last'.val
                   ELSE cells'[i].value = cells[i].value]_vars

OverwriteFrameWitness ==
    /\ last.op = "insert"
    /\ last.present
    /\ last.full
    /\ ~last.again
    /\ last.old # Some(last.val)
    /\ Full

\* the first unoccupied slot met scanning cyclically from slot home
FirstFree(cs, home) ==
    LET d == CHOOSE d \in 0..(Len(cs) - 1) :
                 /\ ~cs[((home + d) % Len(cs)) + 1].taken
                 /\ \A e \in 0..(d - 1) : cs[((home + e) % Len(cs)) + 1].taken
    IN  (home + d) % Len(cs)

\* C17 new-key placement: an insert of a key not stored, into a table with
\* size < capacity, fills the first unoccupied slot on the cyclic scan from
\* hash(key) mod capacity, adds 1 to size and changes nothing else.
NewKeyPlacement ==
    [][(last'.op = "insert" /\ last'.key \notin DOMAIN shadow /\ taken_count < Len(cells))
        => LET idx == FirstFree(cells, hash(last'.key) % Len(cells))
           IN  /\ cells' = [cells EXCEPT ![idx + 1] =
                              [key |-> last'.key, value |-> last'.val, taken |-> TRUE]]
               /\ taken_count' = taken_count + 1
               /\ grows' = grows
               /\ fault' = fault]_vars

\* a new key stored past the end of the array, in a slot before its home slot
NewKeyPlacementWitness ==
    /\ last.op = "insert"
    /\ ~last.present
    /\ ~last.full
    /\ ~last.grew
    /\ \E i \in TakenIdx(cells) :
          /\ cells[i].key = last.key
          /\ hash(last.key) % Len(cells) > i - 1

\* C18 termination: no call leaves the probe loop of insert running for ever
\* (it finds an unoccupied slot within capacity steps, also while a growth
\* re-inserts), and one call runs extend at most once.
Termination ==
    [][/\ fault' # "hang"
       /\ grows' <= grows + 1
       /\ (last'.op = "insert" /\ last'.key \notin DOMAIN shadow)
            => \E i \in TakenIdx(cells') : cells'[i].key = last'.key]_vars

TerminationWitness ==
    /\ fault = "none"
    /\ last.op = "insert"
    /\ last.grew
    /\ grows >= 2
    /\ \E i \in 1..Len(cells) : Displaced(i)

\* C19 assertion validity: no assert_eq!, assert_ne! or assert! of extend and
\* insert fails: extend is entered only with taken_count == cells.len() != 0,
\* and a slot is free after the optional growth.
AssertionsHold ==
    /\ fault # "panic"
    /\ (last.op = "insert" /\ last.grew) => (last.full /\ taken_count < Len(cells))
    /\ (last.op = "insert" /\ ~last.present) => taken_count <= Len(cells)

AssertionsHoldWitness ==
    /\ fault = "none"
    /\ last.op = "insert"
    /\ last.grew
    /\ last.full
    /\ grows = 1
    /\ cap0 = 2

\* C20 benchmark loop assertion: after each pass of the benchmark loop, for
\* any sequence of draws, get(n) is Some(n) and the assert_eq! has not failed.
BenchAssertHolds ==
    last.op = "bench" => (last.ret = Some(last.key) /\ fault = "none")

====
